---- MODULE Spec2Model ----
(***************************************************************************)
(* Model of the evaluation of setup.py of MPInterfaces: the module-level   *)
(* statement computing MPINT_DIR, the left-to-right evaluation of the      *)
(* keyword arguments of setup() (find_packages(), the eager read of        *)
(* README.rst, the glob of the scripts directory), the call of setup() and *)
(* the commands it runs.  The filesystem, the working directory and the    *)
(* path setup.py was invoked by are the environment, chosen in Init.       *)
(***************************************************************************)
EXTENDS Integers, Sequences, FiniteSets, TLC

(* Longest directory prefix, in components, of the path setup.py is invoked by. *)
MaxDirComps == 2

(*************************** path components ******************************)
(* A path component is a sequence of characters, so that glob's test on    *)
(* the first character of a name is computed and not tabulated.            *)
c_proj == <<"p", "r", "o", "j">>
c_sub == <<"s", "u", "b">>
c_work == <<"w", "o", "r", "k">>
c_link == <<"l", "i", "n", "k">>
pardir == <<".", ".">>
c_setup_py == <<"s", "e", "t", "u", "p", ".", "p", "y">>
c_README == <<"R", "E", "A", "D", "M", "E", ".", "r", "s", "t">>
c_scripts == <<"s", "c", "r", "i", "p", "t", "s">>
c_run == <<"r", "u", "n">>
c_hidden == <<".", "h", "i", "d">>
c_tools == <<"t", "o", "o", "l", "s">>
c_nested == <<"x">>

(***************************** filesystem *********************************)
(* Directories of the environment: /, /proj (holds setup.py), /proj/sub,   *)
(* /work, and the symbolic link /work/link -> /proj/sub.                   *)
Dirs == {"root", "proj", "sub", "work"}
NoDir == "none"
SetupDir == "proj"

Parent(d) == CASE d = "root" -> "root"
               [] d = "proj" -> "root"
               [] d = "sub" -> "proj"
               [] d = "work" -> "root"
               [] OTHER -> NoDir

(* The directory entries of d that are directories (after following links). *)
Entries(d) == CASE d = "root" -> {[name |-> c_proj, target |-> "proj"],
                                  [name |-> c_work, target |-> "work"]}
                [] d = "proj" -> {[name |-> c_sub, target |-> "sub"]}
                [] d = "work" -> {[name |-> c_link, target |-> "sub"]}
                [] OTHER -> {}

(* Directories that may hold a README.rst and a scripts directory. *)
ScriptHosts == {"proj", "work"}
(* Directories that may hold an __init__.py. *)
PkgCandidates == {"proj", "sub"}

(* A scripts directory is absent or holds a tree of nodes; a node is a     *)
(* file or a directory at a path relative to the scripts directory.       *)
Absent == [exists |-> FALSE, nodes |-> {}]
n_run == [path |-> <<c_run>>, kind |-> "file"]
n_hidden == [path |-> <<c_hidden>>, kind |-> "file"]
n_tools == [path |-> <<c_tools>>, kind |-> "dir"]
n_nested == [path |-> <<c_tools, c_nested>>, kind |-> "file"]
Nodes == {n_run, n_hidden, n_tools, n_nested}
Trees == {t \in SUBSET Nodes : n_nested \in t => n_tools \in t}
ScriptsDirs == {Absent} \cup {[exists |-> TRUE, nodes |-> t] : t \in Trees}

(******************************* os.path **********************************)
(* A path is a flag (absolute or relative) and its components.             *)
Path(a, cs) == [abs |-> a, comps |-> cs]

dirname(p) == Path(p.abs, SubSeq(p.comps, 1, Len(p.comps) - 1))

join(a, b) == IF b.abs THEN b ELSE Path(a.abs, a.comps \o b.comps)

RECURSIVE collapse(_, _, _)
collapse(a, done, rest) ==
    IF rest = <<>> THEN done
    ELSE IF Head(rest) # pardir THEN collapse(a, Append(done, Head(rest)), Tail(rest))
    ELSE IF done # <<>> /\ done[Len(done)] # pardir
         THEN collapse(a, SubSeq(done, 1, Len(done) - 1), Tail(rest))
    ELSE IF a THEN collapse(a, done, Tail(rest))
    ELSE collapse(a, Append(done, pardir), Tail(rest))

normpath(p) == Path(p.abs, collapse(p.abs, <<>>, p.comps))

RECURSIVE CanonComps(_)
CanonComps(d) ==
    IF d = "root" THEN <<>>
    ELSE Append(CanonComps(Parent(d)),
                (CHOOSE e \in Entries(Parent(d)) : e.target = d /\ Parent(e.target) = Parent(d)).name)

getcwd(wd) == Path(TRUE, CanonComps(wd))

abspath(wd, p) == normpath(IF p.abs THEN p ELSE join(getcwd(wd), p))

(* What the operating system does with a directory path: it walks the     *)
(* components from / or from the working directory, follows links, and    *)
(* takes .. to the parent of the directory it has reached.                *)
RECURSIVE Walk(_, _)
Walk(d, cs) ==
    IF d = NoDir \/ cs = <<>> THEN d
    ELSE IF Head(cs) = pardir THEN Walk(Parent(d), Tail(cs))
    ELSE IF \E e \in Entries(d) : e.name = Head(cs)
         THEN Walk((CHOOSE e \in Entries(d) : e.name = Head(cs)).target, Tail(cs))
    ELSE NoDir

Resolve(wd, p) == Walk(IF p.abs THEN "root" ELSE wd, p.comps)

(******************************** state ***********************************)
VARIABLES
    cwd,               \* working directory the build is started from
    file,              \* __file__: the path setup.py is invoked by
    readme,            \* the directories that hold a README.rst
    scripts,           \* per directory, its scripts directory
    hasInit,           \* the directories that hold an __init__.py
    pc,                \* position in the evaluation of setup.py
    MPINT_DIR,         \* line 5
    packages,          \* value of find_packages()
    long_description,  \* whether README.rst has been read
    globbed,           \* value of glob.glob(.../scripts/*)
    dist,              \* the keyword arguments setup() received, if called
    setupCalls,        \* number of calls of setup()
    trace,             \* the steps completed so far, in order
    extras,            \* the optional groups the installation selected
    required           \* the requirements of the installation

vars == <<cwd, file, readme, scripts, hasInit, pc, MPINT_DIR, packages,
          long_description, globbed, dist, setupCalls, trace, extras, required>>

env == <<cwd, file, readme, scripts, hasInit>>

NotSet == Path(FALSE, <<>>)

ScriptsOf(d) == IF d \in DOMAIN scripts THEN scripts[d] ELSE Absent

(********************************* glob ***********************************)
star == <<"*">>

(* os.listdir of a path .../scripts: the names of its direct entries, or   *)
(* an OSError when the directory does not exist.                           *)
listdir(p) ==
    LET tree == IF p.comps # <<>> /\ p.comps[Len(p.comps)] = c_scripts
                THEN ScriptsOf(Resolve(cwd, dirname(p)))
                ELSE Absent
    IN  IF ~tree.exists THEN [ok |-> FALSE, names |-> {}]
        ELSE [ok |-> TRUE, names |-> {n.path[1] : n \in {m \in tree.nodes : Len(m.path) = 1}}]

fnmatch_filter(names, pat) == IF pat = star THEN names ELSE {n \in names : n = pat}

(* glob1 without the test on the first character of the names. *)
glob1_all(dir, pattern) ==
    LET listing == listdir(dir)
    IN  IF ~listing.ok THEN {} ELSE fnmatch_filter(listing.names, pattern)

glob1(dir, pattern) ==
    LET listing == listdir(dir)
        names == IF pattern[1] # "."
                 THEN {x \in listing.names : x[1] # "."}
                 ELSE listing.names
    IN  IF ~listing.ok THEN {} ELSE fnmatch_filter(names, pattern)

(* A glob that, like a shell, yields the pattern itself when nothing matches. *)
glob_literal(pathname) ==
    LET dir == dirname(pathname)
        basename == pathname.comps[Len(pathname.comps)]
        found == {join(dir, Path(FALSE, <<name>>)) : name \in glob1(dir, basename)}
    IN  IF found = {} THEN {pathname} ELSE found

glob(pathname) ==
    LET dir == dirname(pathname)
        basename == pathname.comps[Len(pathname.comps)]
    IN  {join(dir, Path(FALSE, <<name>>)) : name \in glob1(dir, basename)}

(* The kind of what a path .../scripts/<name> names: file, dir or missing. *)
KindAt(p) ==
    LET name == p.comps[Len(p.comps)]
        tree == IF Len(p.comps) >= 2 /\ p.comps[Len(p.comps) - 1] = c_scripts
                THEN ScriptsOf(Resolve(cwd, dirname(dirname(p))))
                ELSE Absent
    IN  IF ~(\E n \in tree.nodes : n.path = <<name>>) THEN "missing"
        ELSE (CHOOSE n \in tree.nodes : n.path = <<name>>).kind

(***************************** find_packages ******************************)
RECURSIVE FindIn(_, _)
FindIn(d, prefix) ==
    UNION {{Append(prefix, e.name)} \cup FindIn(e.target, Append(prefix, e.name)) :
           e \in {x \in Entries(d) : x.target \in hasInit}}

find_packages == FindIn(cwd, <<>>)

(***************************** requirements *******************************)
Req(n, o, v) == [name |-> n, op |-> o, ver |-> v]
Range(s) == {s[i] : i \in DOMAIN s}

(* The runtime dependencies with the constraint on ase left out. *)
install_requires_unpinned ==
    <<Req("pymatgen", "==", "3.4.1"), Req("FireWorks", ">=", "1.2.2"),
      Req("custodian", ">=", "0.8.8"), Req("pymatgen-db", ">=", "0.5.1"),
      Req("ase", "", "")>>

install_requires ==
    <<Req("pymatgen", "==", "3.4.1"), Req("FireWorks", ">=", "1.2.2"),
      Req("custodian", ">=", "0.8.8"), Req("pymatgen-db", ">=", "0.5.1"),
      Req("ase", ">=", "3.9.1")>>

extras_require ==
    [plot |-> <<Req("matplotlib", ">=", "1.4.2")>>,
     babel |-> <<Req("openbabel", "", ""), Req("pybel", "", "")>>,
     remote |-> <<Req("fabric", "", "")>>,
     doc |-> <<Req("sphinx", ">=", "1.3.1"), Req("sphinx-rtd-theme", ">=", "0.1.8")>>]

(* Requirements that take in every optional group, selected or not. *)
Requirements_all(d, E) ==
    Range(d.install_requires) \cup UNION {Range(d.extras_require[g]) : g \in DOMAIN d.extras_require}

(* The requirements of an installation of d that selects the groups E. *)
Requirements(d, E) ==
    Range(d.install_requires) \cup UNION {Range(d.extras_require[g]) : g \in E}

(**************************** the evaluation ******************************)
(* The evaluation with the glob ahead of the read of README.rst. *)
EvalOrderSwapped == <<"MPINT_DIR", "packages", "scripts", "long_description", "setup">>

(* Line 5 runs first; the keyword arguments of setup() are evaluated left  *)
(* to right (lines 23, 24, 33) before the call itself (line 7).            *)
EvalOrder == <<"MPINT_DIR", "packages", "long_description", "scripts", "setup">>

Succ(p) ==
    IF \E i \in 1..(Len(EvalOrder) - 1) : EvalOrder[i] = p
    THEN EvalOrder[(CHOOSE i \in 1..(Len(EvalOrder) - 1) : EvalOrder[i] = p) + 1]
    ELSE "commands"

Terminal == {"installed", "IOError", "build_error", "DistributionNotFound"}

SeqsUpTo(S, n) == UNION {[1..k -> S] : k \in 0..n}
DirComps == {c_proj, c_sub, c_work, c_link, pardir}
InvocationPaths ==
    {Path(a, Append(cs, c_setup_py)) : a \in BOOLEAN, cs \in SeqsUpTo(DirComps, MaxDirComps)}

Init ==
    /\ cwd \in Dirs
    /\ file \in {f \in InvocationPaths : Resolve(cwd, dirname(f)) = SetupDir}
    /\ readme \in SUBSET ScriptHosts
    /\ scripts \in [ScriptHosts -> ScriptsDirs]
    /\ hasInit \in SUBSET PkgCandidates
    /\ pc = EvalOrder[1]
    /\ MPINT_DIR = NotSet
    /\ packages = {}
    /\ long_description = "unread"
    /\ globbed = {}
    /\ dist = <<>>
    /\ setupCalls = 0
    /\ trace = <<>>
    /\ extras = {}
    /\ required = {}

(* line 5: MPINT_DIR = os.path.dirname(os.path.abspath(__file__)) *)
ComputeMPINT_DIR ==
    /\ pc = "MPINT_DIR"
    /\ MPINT_DIR' = dirname(abspath(cwd, file))
    /\ pc' = Succ(pc)
    /\ trace' = Append(trace, pc)
    /\ UNCHANGED <<env, packages, long_description, globbed, dist, setupCalls,
                   extras, required>>

(* line 23: packages=find_packages() *)
FindPackages ==
    /\ pc = "packages"
    /\ packages' = find_packages
    /\ pc' = Succ(pc)
    /\ trace' = Append(trace, pc)
    /\ UNCHANGED <<env, MPINT_DIR, long_description, globbed, dist, setupCalls,
                   extras, required>>

(* line 24: the file open() is given, and whether it exists *)
readme_path == join(dirname(file), Path(FALSE, <<c_README>>))
(* The lookup of README.rst in the working directory. *)
readme_exists_in_cwd == cwd \in readme

readme_exists == Resolve(cwd, dirname(readme_path)) \in readme

(* line 24: long_description=open(...).read(), the file exists *)
ReadReadme ==
    /\ pc = "long_description"
    /\ readme_exists
    /\ long_description' = "read"
    /\ pc' = Succ(pc)
    /\ trace' = Append(trace, pc)
    /\ UNCHANGED <<env, MPINT_DIR, packages, globbed, dist, setupCalls,
                   extras, required>>

(* line 24: open() raises, the evaluation of setup.py ends *)
ReadReadmeFails ==
    /\ pc = "long_description"
    /\ ~readme_exists
    /\ pc' = "IOError"
    /\ UNCHANGED <<env, MPINT_DIR, packages, long_description, globbed, dist,
                   setupCalls, trace, extras, required>>

(* line 33: scripts=glob.glob(os.path.join(MPINT_DIR, "scripts", "*")) *)
GlobScripts ==
    /\ pc = "scripts"
    /\ globbed' = glob(join(join(MPINT_DIR, Path(FALSE, <<c_scripts>>)), Path(FALSE, <<star>>)))
    /\ pc' = Succ(pc)
    /\ trace' = Append(trace, pc)
    /\ UNCHANGED <<env, MPINT_DIR, packages, long_description, dist, setupCalls,
                   extras, required>>

(* lines 7-34: setup() receives the keyword arguments *)
CallSetup ==
    /\ pc = "setup"
    /\ dist' = <<[name |-> "mpinterfaces",
                  version |-> "1.1.2",
                  install_requires |-> install_requires,
                  extras_require |-> extras_require,
                  packages |-> packages,
                  long_description |-> long_description,
                  scripts |-> globbed]>>
    /\ setupCalls' = setupCalls + 1
    /\ pc' = Succ(pc)
    /\ trace' = Append(trace, pc)
    /\ UNCHANGED <<env, MPINT_DIR, packages, long_description, globbed,
                   extras, required>>

(* A registered script that the build of the scripts cannot open as a file. *)
BadScripts(d) == {s \in d.scripts : KindAt(s) # "file"}

(* setup() runs the installation: it copies every registered script, then  *)
(* resolves the requirements of the selected groups.                       *)
RunCommands(E, resolvable) ==
    /\ pc = "commands"
    /\ extras' = E
    /\ IF BadScripts(dist[1]) # {}
       THEN pc' = "build_error" /\ required' = required
       ELSE /\ required' = Requirements(dist[1], E)
            /\ pc' = IF resolvable THEN "installed" ELSE "DistributionNotFound"
    /\ UNCHANGED <<env, MPINT_DIR, packages, long_description, globbed, dist,
                   setupCalls, trace>>

Next ==
    \/ ComputeMPINT_DIR
    \/ FindPackages
    \/ ReadReadme
    \/ ReadReadmeFails
    \/ GlobScripts
    \/ CallSetup
    \/ \E E \in SUBSET DOMAIN extras_require, resolvable \in BOOLEAN :
          RunCommands(E, resolvable)

Spec == Init /\ [][Next]_vars

(******************************* properties *******************************)
Started == {"commands"} \cup Terminal
ScriptsPath(d, rel) == Path(TRUE, d.comps \o <<c_scripts>> \o rel)
GlobbedDir == ScriptsOf(Resolve(cwd, MPINT_DIR))
OptionalNames == {"matplotlib", "openbabel", "pybel", "fabric", "sphinx", "sphinx-rtd-theme"}
RuntimeNames == {"pymatgen", "FireWorks", "custodian", "pymatgen-db", "ase"}

(* C1, as claimed: once setup() is called, the registered scripts are      *)
(* exactly the files, at any depth and hidden or not, under the scripts    *)
(* directory next to setup.py.                                             *)
C1_AllFilesUnderScripts ==
    dist # <<>> =>
        dist[1].scripts =
            {ScriptsPath(getcwd(SetupDir), n.path) :
                n \in {m \in scripts[SetupDir].nodes : m.kind = "file"}}

(* C1, amended: once setup() is called, the registered scripts are exactly *)
(* the paths MPINT_DIR/scripts/<name> of the direct entries of that        *)
(* directory whose name does not start with a dot, files and               *)
(* subdirectories alike; hidden entries and files nested in a              *)
(* subdirectory are not registered.                                        *)
C1_VisibleDirectEntries ==
    dist # <<>> =>
        /\ \A n \in GlobbedDir.nodes :
              (ScriptsPath(MPINT_DIR, n.path) \in dist[1].scripts)
                  <=> (Len(n.path) = 1 /\ n.path[1][1] # ".")
        /\ \A s \in dist[1].scripts :
              \E n \in GlobbedDir.nodes : s = ScriptsPath(MPINT_DIR, n.path)

C1_Witness ==
    /\ dist # <<>>
    /\ Resolve(cwd, MPINT_DIR) = SetupDir
    /\ scripts[SetupDir].nodes = Nodes
    /\ Cardinality(dist[1].scripts) = 2

(* C2: when README.rst is absent from the directory of setup.py, the      *)
(* evaluation never gets past the read of the file, it can only end in the *)
(* error of that read, and setup() is not called: nothing is registered.   *)
C2_MissingReadmeStopsBeforeSetup ==
    SetupDir \notin readme =>
        /\ pc \in {"MPINT_DIR", "packages", "long_description", "IOError"}
        /\ setupCalls = 0
        /\ dist = <<>>
        /\ long_description = "unread"

C2_Witness ==
    /\ pc = "IOError"
    /\ SetupDir \notin readme
    /\ cwd \in readme

(* C3, as claimed: a run in which README.rst exists and the requirements   *)
(* can be resolved ends with the package installed, whatever the scripts   *)
(* directory and the package tree hold.                                    *)
C3_OnlyTwoFailureModes ==
    (pc \in Terminal /\ SetupDir \in readme /\ pc # "DistributionNotFound")
        => pc = "installed"

(* C4: setup() receives exactly the five runtime dependencies, each with a *)
(* version constraint, and every installation requires all five, whatever  *)
(* optional groups it selects.                                             *)
C4_FiveConstrainedRuntimeDeps ==
    dist # <<>> =>
        /\ Len(dist[1].install_requires) = Cardinality(RuntimeNames)
        /\ {r.name : r \in Range(dist[1].install_requires)} = RuntimeNames
        /\ \A r \in Range(dist[1].install_requires) : r.op # "" /\ r.ver # ""
        /\ pc \in {"installed", "DistributionNotFound"} =>
              \A n \in RuntimeNames :
                  \E r \in required : r.name = n /\ r.op # "" /\ r.ver # ""

C4_Witness ==
    /\ pc = "installed"
    /\ extras = {"plot", "doc"}
    /\ Cardinality(required) = 8

(* C5: setup() receives exactly the four optional groups plot, babel,      *)
(* remote and doc, and an installation that selects the groups E requires  *)
(* the five runtime dependencies and exactly the libraries of the groups   *)
(* of E; with no group selected it requires no optional library.           *)
C5_ExtrasAddExactlyTheirGroups ==
    dist # <<>> =>
        /\ DOMAIN dist[1].extras_require = {"plot", "babel", "remote", "doc"}
        /\ pc \in {"installed", "DistributionNotFound"} =>
              /\ {r.name : r \in required} =
                    RuntimeNames
                    \cup (IF "plot" \in extras THEN {"matplotlib"} ELSE {})
                    \cup (IF "babel" \in extras THEN {"openbabel", "pybel"} ELSE {})
                    \cup (IF "remote" \in extras THEN {"fabric"} ELSE {})
                    \cup (IF "doc" \in extras THEN {"sphinx", "sphinx-rtd-theme"} ELSE {})
              /\ extras = {} => {r.name : r \in required} \cap OptionalNames = {}

C5_Witness ==
    /\ pc = "installed"
    /\ extras = {"babel"}
    /\ {r.name : r \in required} \cap OptionalNames = {"openbabel", "pybel"}

(* C6, as claimed: the directory README.rst is read from and the directory *)
(* whose scripts directory is globbed are the same directory, the one that *)
(* holds setup.py, for every working directory and invocation path.        *)
C6_SameDirectory ==
    (\E i \in DOMAIN trace : trace[i] = "scripts") =>
        /\ Resolve(cwd, dirname(readme_path)) = SetupDir
        /\ Resolve(cwd, MPINT_DIR) = SetupDir

(* C7: when README.rst exists and the globbed scripts directory is absent  *)
(* or empty, the glob yields the empty list and no error: the run can only *)
(* end after setup() was called once, with an empty script list and the    *)
(* usual name, version and dependency declarations.                        *)
C7_NoScriptsIsNotAnError ==
    (readme_exists /\ MPINT_DIR # NotSet /\ (~GlobbedDir.exists \/ GlobbedDir.nodes = {})) =>
        /\ globbed = {}
        /\ pc \notin {"IOError", "build_error"}
        /\ pc \in Started =>
              /\ setupCalls = 1
              /\ dist[1].scripts = {}
              /\ dist[1].name = "mpinterfaces"
              /\ dist[1].version = "1.1.2"
              /\ {r.name : r \in Range(dist[1].install_requires)} = RuntimeNames
              /\ DOMAIN dist[1].extras_require = {"plot", "babel", "remote", "doc"}

C7_Witness ==
    /\ pc = "installed"
    /\ ~GlobbedDir.exists
    /\ dist[1].scripts = {}

(* C8: the steps complete in the order MPINT_DIR, package discovery, read  *)
(* of README.rst, glob of scripts, call of setup(); when the read fails    *)
(* the scripts directory has not been globbed; setup() is called at most   *)
(* once, and only after the three steps before it.                         *)
C8_FixedOrder ==
    LET order == <<"MPINT_DIR", "packages", "long_description", "scripts", "setup">>
    IN  /\ Len(trace) <= Len(order)
        /\ trace = SubSeq(order, 1, Len(trace))
        /\ pc = "IOError" => (\A i \in DOMAIN trace : trace[i] # "scripts") /\ globbed = {}
        /\ setupCalls <= 1
        /\ setupCalls = 1 => Len(trace) = Len(order) /\ long_description = "read"

C8_Witness ==
    /\ pc = "IOError"
    /\ trace = <<"MPINT_DIR", "packages">>
    /\ GlobbedDir.nodes # {}

====
